---- MODULE Spec2Model ----
(***************************************************************************)
(* dr_wandb: synchronisation of W&B runs and histories into a relational   *)
(* store.  The store's two tables, the remote project listings and one     *)
(* download_project pass (split at its transaction boundaries) are the     *)
(* state; store_run / store_history / store_histories / the filtered reads *)
(* are also exercised directly under their own specifications.             *)
(***************************************************************************)
EXTENDS Integers, Sequences, FiniteSets, TLC

VARIABLES
    remote,            \* remote service: target -> run id -> state or "absent"
    runs,              \* table wandb_runs: a set of RunRecord rows
    history,           \* table wandb_history: rows in surrogate-id order
    pc,                \* position of the download_project call in flight
    call,              \* arguments of the download_project call in flight
    wandb_runs,        \* download_runs: listing fetched from the remote
    stored_states,     \* download_runs: run_id -> state read from the store
    runs_to_download,  \* download_runs: the download set
    i,                 \* download_runs: number of loop iterations completed
    stats,             \* DownloaderStats being accumulated / returned
    audit,             \* observer: what the pass in flight did to the store
    files,             \* output directory: file name -> rows of the data frame
    conc,              \* two concurrent passes: position and open transaction
    lastOp             \* observer: the last direct store call and its outcome

vars == <<remote, runs, history, pc, call, wandb_runs, stored_states,
          runs_to_download, i, stats, audit, files, conc, lastOp>>

passVars == <<pc, call, wandb_runs, stored_states, runs_to_download, i,
              stats, audit>>

----------------------------------------------------------------------------
(* Python values.  Leaf values are strings; None of a leaf is "None".      *)
(* Arguments that may be a string, a list or None are wrapped.             *)

None == "None"

EmptyDict == "{}"

PyNone == [none |-> TRUE]

Some(v) == [val |-> v]

\* variant: a null value is stored as it is
KeepNone(x) == x

\* x or {}
OrEmptyDict(x) == IF x = None \/ x = EmptyDict THEN EmptyDict ELSE x

\* d.get(key, default)
Get(d, key, default) == IF key \in DOMAIN d THEN d[key] ELSE default

Range(seq) == {seq[n] : n \in 1..Len(seq)}

\* [run.id for run in runs]
Ids(run_list) == [n \in 1..Len(run_list) |-> run_list[n].id]

RECURSIVE SumSeq(_)
SumSeq(s) == IF s = <<>> THEN 0 ELSE Head(s) + SumSeq(Tail(s))

----------------------------------------------------------------------------
(* constants.py / store.py constants                                       *)

SUPPORTED_FILTER_FIELDS == {"project", "entity", "state", "run_ids"}

WANDB_RUN_STATES == {"finished", "running", "crashed", "failed", "killed"}

RUN_DATA_COMPONENTS ==
    <<"config", "summary", "metadata", "system_metrics", "system_attrs",
      "sweep_info">>

RunColumns ==
    {"run_id", "run_name", "state", "project", "entity", "created_at",
     "config", "summary", "metadata", "system_metrics", "system_attrs",
     "sweep_info"}

----------------------------------------------------------------------------
(* The modelled world: two entity/project targets whose run ids overlap    *)
(* on "r1" (W&B run ids are unique per project only).                      *)

T1 == <<"e1", "p1">>

T2 == <<"e1", "p2">>

Targets == {T1, T2}

T3 == <<"e2", "p1">>

\* the targets whose runs are handed to the store directly
StoreTargets == {T1, T2, T3}

RunIds == {"r1", "r2"}

\* the run ids that can exist in each remote project
ProjectRunIds(t) == IF t = T1 THEN {"r1", "r2"} ELSE {"r1"}

\* the run states the remote takes in the model
ModelStates == {"running", "finished", "crashed"}

\* the order api.runs() lists a project's runs in
ListingOrder == <<"r1", "r2">>

----------------------------------------------------------------------------
(* History entries as logged by a run: a mapping key -> value.  A key is   *)
(* <<first character, remaining characters>>.                              *)

K_step == <<"_", "step">>

K_timestamp == <<"_", "timestamp">>

K_runtime == <<"_", "runtime">>

K_wandb == <<"_", "wandb">>

K_loss == <<"l", "oss">>

K_acc == <<"a", "cc">>

K_user == <<"_", "grad_norm">>

MkEntry(keys, step, ts, loss) ==
    [k \in keys |->
        CASE k = K_step -> step
          [] k = K_timestamp -> ts
          [] k = K_runtime -> "3"
          [] k = K_wandb -> "{runtime:3}"
          [] k = K_loss -> loss
          [] k = K_acc -> "1"
          [] k = K_user -> "8"]

EntryA == MkEntry({K_step, K_timestamp, K_runtime, K_loss}, "0", "17", "9")

EntryB == MkEntry({K_step, K_timestamp, K_wandb, K_loss, K_acc}, "1", "18", "5")

\* same step as EntryA, other values
EntryA2 == MkEntry({K_step, K_runtime, K_loss, K_acc}, "0", "0", "4")

\* no step, a zero timestamp and a user metric named "_grad_norm"
EntryU == MkEntry({K_timestamp, K_loss, K_user}, "0", "0", "2")

HistEntries == {EntryA, EntryA2, EntryU}

MaxHistLen == 2

RECURSIVE SeqsUpTo(_, _)
SeqsUpTo(S, n) ==
    IF n = 0 THEN {<<>>}
    ELSE LET shorter == SeqsUpTo(S, n - 1)
         IN shorter \cup {Append(q, x) : q \in shorter, x \in S}

\* the histories handed to the store directly
Hists == SeqsUpTo(HistEntries, MaxHistLen)

----------------------------------------------------------------------------
(* RemoteSource: wandb.apis.public.Run handles                             *)

RunHandle(t, id, st) ==
    [id |-> id,
     name |-> IF id = "r1" THEN "alpha" ELSE "beta",
     state |-> st,
     project |-> t[2],
     entity |-> t[1],
     created_at |-> IF id = "r1" THEN "2024-01-01" ELSE None,
     config |-> IF id = "r1" THEN "{lr:1}" ELSE EmptyDict,
     summary |-> IF st = "running" THEN "{loss:9}" ELSE "{loss:5}",
     metadata |-> IF st = "running" THEN None ELSE "{host:a}",
     system_metrics |->
        CASE st = "running" -> None
          [] st = "crashed" -> EmptyDict
          [] OTHER -> "{gpu:1}",
     attrs |-> IF st = "running" THEN "{s:run}" ELSE "{s:end}",
     sweep_id |-> IF id = "r1" THEN None ELSE "sw1",
     sweep_url |-> IF id = "r1" THEN None ELSE "url1"]

\* run.scan_history()
ScanHistory(run) ==
    IF run.state = "finished" THEN <<EntryA, EntryB>> ELSE <<EntryA>>

RECURSIVE Listing(_, _, _)
Listing(rem, t, order) ==
    IF order = <<>> THEN <<>>
    ELSE LET id == Head(order)
             rest == Listing(rem, t, Tail(order))
         IN IF rem[t][id] = "absent" THEN rest
            ELSE <<RunHandle(t, id, rem[t][id])>> \o rest

\* Downloader.get_all_runs
get_all_runs(rem, entity, project) ==
    Listing(rem, <<entity, project>>, ListingOrder)

----------------------------------------------------------------------------
(* RecordStore: RunRecord                                                  *)

from_wandb_run(wandb_run) ==
    [run_id |-> wandb_run.id,
     run_name |-> wandb_run.name,
     state |-> wandb_run.state,
     project |-> wandb_run.project,
     entity |-> wandb_run.entity,
     created_at |-> wandb_run.created_at,
     config |-> wandb_run.config,
     summary |-> wandb_run.summary,
     metadata |-> OrEmptyDict(wandb_run.metadata),
     system_metrics |-> OrEmptyDict(wandb_run.system_metrics),
     system_attrs |-> wandb_run.attrs,
     sweep_info |-> [sweep_id |-> wandb_run.sweep_id,
                     sweep_url |-> wandb_run.sweep_url]]

\* variant: the summary column is left out of the update
update_keeps_summary(self, wandb_run) ==
    LET updated == from_wandb_run(wandb_run)
    IN [col \in RunColumns |->
            IF col \notin {"run_id", "summary"} THEN updated[col] ELSE self[col]]

update_from_wandb_run(self, wandb_run) ==
    LET updated == from_wandb_run(wandb_run)
    IN [col \in RunColumns |->
            IF col # "run_id" THEN updated[col] ELSE self[col]]

\* session.get(RunRecord, run_id): the rows with that primary key
session_get(table, run_id) == {rec \in table : rec.run_id = run_id}

\* ProjectStore.store_run: the table after the committed transaction
store_run(table, run) ==
    LET existing_run == session_get(table, run.id)
    IN IF existing_run # {}
       THEN (table \ existing_run) \cup
            {update_from_wandb_run(rec, run) : rec \in existing_run}
       ELSE table \cup {from_wandb_run(run)}

----------------------------------------------------------------------------
(* RecordStore: HistoryEntryRecord                                         *)

startswith(k, c) == k[1] = c

\* datetime.fromtimestamp
fromtimestamp(v) ==
    CASE v = "17" -> "1970-01-01T00:00:17"
      [] v = "18" -> "1970-01-01T00:00:18"
      [] OTHER -> "1970-01-01T00:00:99"

\* truthiness of a timestamp value
Truthy(v) == v # None /\ v # "0"

extract_as_datetime(data, key) ==
    IF Truthy(Get(data, key, None)) THEN fromtimestamp(data[key]) ELSE None

from_wandb_history(history_entry, run_id) ==
    [run_id |-> run_id,
     step |-> Get(history_entry, K_step, None),
     timestamp |-> extract_as_datetime(history_entry, K_timestamp),
     runtime |-> Get(history_entry, K_runtime, None),
     wandb_metadata |-> Get(history_entry, K_wandb, EmptyDict),
     metrics |-> [k \in {k \in DOMAIN history_entry : ~startswith(k, "_")}
                    |-> history_entry[k]]]

\* variant: nothing is deleted, new rows are appended to the old ones
delete_nothing(table, run_ids) == table

\* DELETE FROM wandb_history WHERE run_id = ANY(:run_ids)
delete_history_for_runs(table, run_ids) ==
    IF run_ids = <<>> THEN table
    ELSE SelectSeq(table,
                   LAMBDA row : \A n \in 1..Len(run_ids) : row.run_id # run_ids[n])

RECURSIVE HistoryRows(_, _)
HistoryRows(hist, run_id) ==
    IF hist = <<>> THEN <<>>
    ELSE <<from_wandb_history(Head(hist), run_id)>>
         \o HistoryRows(Tail(hist), run_id)

\* ProjectStore.store_history: the table after the committed transaction
store_history(table, run_id, hist) ==
    delete_history_for_runs(table, <<run_id>>) \o HistoryRows(hist, run_id)

RECURSIVE ZipRows(_, _)
ZipRows(run_ids, histories) ==
    IF run_ids = <<>> \/ histories = <<>> THEN <<>>
    ELSE HistoryRows(Head(histories), Head(run_ids))
         \o ZipRows(Tail(run_ids), Tail(histories))

\* ProjectStore.store_histories: the table after the committed transaction
store_histories(table, run_list, histories) ==
    LET run_ids == Ids(run_list)
    IN delete_history_for_runs(table, run_ids) \o ZipRows(run_ids, histories)

\* what the open session sees after its DELETE (if executed) and after the
\* first `added` of the rows it is to insert
SessionView(table, run_ids, rows, deleted, added) ==
    (IF deleted THEN delete_history_for_runs(table, run_ids) ELSE table)
        \o SubSeq(rows, 1, added)

\* variant: every statement is committed as it executes
session_exit_autocommit(committed, view, did_commit) == view

\* `with Session(...)` is left: without a commit the transaction is rolled
\* back
session_exit(committed, view, did_commit) ==
    IF did_commit THEN view ELSE committed

\* the rows of one run, in table order
RowsOf(table, run_id) == SelectSeq(table, LAMBDA row : row.run_id = run_id)

----------------------------------------------------------------------------
(* RecordStore: filtered queries                                           *)

\* variant: the assertion on None values is missing
BuildRunQueryKeysOnly(kwargs) ==
    \/ kwargs = PyNone
    \/ \A k \in DOMAIN kwargs : k \in SUPPORTED_FILTER_FIELDS

\* build_run_query: do its two assertions pass
BuildRunQueryOk(kwargs) ==
    \/ kwargs = PyNone
    \/ /\ \A k \in DOMAIN kwargs : k \in SUPPORTED_FILTER_FIELDS
       /\ \A k \in DOMAIN kwargs : kwargs[k] # PyNone

\* variant: the entity filter is not applied
RunQueryRowsNoEntity(table, kwargs) ==
    IF kwargs = PyNone THEN table
    ELSE {rec \in table :
            /\ "project" \in DOMAIN kwargs => Some(rec.project) = kwargs["project"]
            /\ "state" \in DOMAIN kwargs => Some(rec.state) = kwargs["state"]
            /\ "run_ids" \in DOMAIN kwargs =>
                    /\ kwargs["run_ids"] # PyNone
                    /\ rec.run_id \in kwargs["run_ids"].val}

\* the rows the built query selects
RunQueryRows(table, kwargs) ==
    IF kwargs = PyNone THEN table
    ELSE {rec \in table :
            /\ "project" \in DOMAIN kwargs => Some(rec.project) = kwargs["project"]
            /\ "entity" \in DOMAIN kwargs => Some(rec.entity) = kwargs["entity"]
            /\ "state" \in DOMAIN kwargs => Some(rec.state) = kwargs["state"]
            /\ "run_ids" \in DOMAIN kwargs =>
                    /\ kwargs["run_ids"] # PyNone
                    /\ rec.run_id \in kwargs["run_ids"].val}

\* ProjectStore.get_existing_run_states (kwargs accepted by build_run_query):
\* the dict comprehension keeps the last row seen for a key
get_existing_run_states(table, kwargs) ==
    LET rows == RunQueryRows(table, kwargs)
    IN [rid \in {rec.run_id : rec \in rows} |->
            (CHOOSE rec \in rows : rec.run_id = rid).state]

\* the include argument: None, "all" or a list of component names
All == [all |-> TRUE]

\* RunRecord.standard_fields
standard_fields == RunColumns \ Range(RUN_DATA_COMPONENTS)

\* RunRecord.to_dict: the list of components after `include or []` and "all"
IncludeList(include) ==
    IF include = PyNone THEN <<>>
    ELSE IF include = All THEN RUN_DATA_COMPONENTS
    ELSE include.val

\* RunRecord.to_dict: the assertion on the include list
ToDictOk(include) ==
    \A n \in 1..Len(IncludeList(include)) :
        IncludeList(include)[n] \in Range(RUN_DATA_COMPONENTS)

\* RunRecord.to_dict (include accepted by the assertion)
to_dict(self, include) ==
    [k \in standard_fields \cup Range(IncludeList(include)) |-> self[k]]

\* ProjectStore.get_runs_df as a function of the table: PyNone when an
\* assertion fails, otherwise the rows of the data frame
get_runs_df(table, include, kwargs) ==
    IF ~BuildRunQueryOk(kwargs) THEN PyNone
    ELSE IF RunQueryRows(table, kwargs) # {} /\ ~ToDictOk(include) THEN PyNone
    ELSE Some({to_dict(rec, include) : rec \in RunQueryRows(table, kwargs)})

\* a component name as Python iterates a str: character by character
Chars(name) ==
    CASE name = "config" -> <<"c", "o", "n", "f", "i", "g">>
      [] name = "summary" -> <<"s", "u", "m", "m", "a", "r", "y">>
      [] name = "metadata" -> <<"m", "e", "t", "a", "d", "a", "t", "a">>
      [] name = "system_metrics" ->
            <<"s", "y", "s", "t", "e", "m", "_", "m", "e", "t", "r", "i", "c", "s">>
      [] name = "system_attrs" ->
            <<"s", "y", "s", "t", "e", "m", "_", "a", "t", "t", "r", "s">>
      [] name = "sweep_info" ->
            <<"s", "w", "e", "e", "p", "_", "i", "n", "f", "o">>

\* an include argument that is a str naming one component
StrInclude(name) == Some(Chars(name))

\* the key of a HistoryEntryRecord column in the exported row
ColumnKey(field) ==
    CASE field = "run_id" -> <<"r", "un_id">>
      [] field = "step" -> <<"s", "tep">>
      [] field = "timestamp" -> <<"t", "imestamp">>
      [] field = "runtime" -> <<"r", "untime">>
      [] field = "wandb_metadata" -> <<"w", "andb_metadata">>

\* HistoryEntryRecord.standard_fields (the surrogate id is the row's position)
history_standard_fields == {"run_id", "step", "timestamp", "runtime"}

\* HistoryEntryRecord.to_dict: later entries of the dict display win
history_to_dict(self, include_metadata) ==
    LET std == {ColumnKey(f) : f \in history_standard_fields}
        meta == IF include_metadata THEN {ColumnKey("wandb_metadata")} ELSE {}
    IN [k \in std \cup DOMAIN self.metrics \cup meta |->
            IF k \in meta THEN self.wandb_metadata
            ELSE IF k \in DOMAIN self.metrics THEN self.metrics[k]
            ELSE self[CHOOSE f \in history_standard_fields : ColumnKey(f) = k]]

\* build_history_query: the rows selected, in table order
HistoryQueryRows(table, run_ids) ==
    IF run_ids = PyNone THEN table
    ELSE SelectSeq(table, LAMBDA row : row.run_id \in run_ids.val)

\* ProjectStore.get_history_df
get_history_df(table, include_metadata, run_ids) ==
    LET rows == HistoryQueryRows(table, run_ids)
    IN [n \in 1..Len(rows) |-> history_to_dict(rows[n], include_metadata)]

DEFAULT_RUNS_FILENAME == <<"runs_metadata">>

DEFAULT_HISTORY_FILENAME == <<"runs_history">>

\* f"{runs_filename}_{include_type}.parquet"
ComponentFile(runs_filename, include_type) ==
    runs_filename \o <<"_", include_type, ".parquet">>

\* f"{runs_filename}.parquet"
FullFile(runs_filename) == runs_filename \o <<".parquet">>

\* DataFrame.to_parquet(path): the file is created or overwritten
to_parquet(dir, path, df) ==
    [name \in DOMAIN dir \cup {path} |-> IF name = path THEN df ELSE dir[name]]

\* export_to_parquet: the loop over RUN_DATA_COMPONENTS from position n on;
\* each component is handed to get_runs_df as a str
RECURSIVE ExportComponents(_, _, _, _, _)
ExportComponents(table, dir, written, queries, n) ==
    IF n > Len(RUN_DATA_COMPONENTS)
    THEN [files |-> dir, written |-> written, queries |-> queries, error |-> ""]
    ELSE LET include_type == RUN_DATA_COMPONENTS[n]
             runs_df == get_runs_df(table, StrInclude(include_type), PyNone)
             runs_path == ComponentFile(DEFAULT_RUNS_FILENAME, include_type)
         IN IF runs_df = PyNone
            THEN [files |-> dir, written |-> written,
                  queries |-> Append(queries, StrInclude(include_type)),
                  error |-> "AssertionError"]
            ELSE IF runs_df.val # {}
            THEN ExportComponents(table, to_parquet(dir, runs_path, runs_df.val),
                                  written \cup {runs_path},
                                  Append(queries, StrInclude(include_type)), n + 1)
            ELSE ExportComponents(table, dir, written,
                                  Append(queries, StrInclude(include_type)), n + 1)

----------------------------------------------------------------------------
(* SyncEngine                                                              *)

\* variant: re-download only what is stored as "running"
select_running_only(all_runs, existing_run_states) ==
    SelectSeq(all_runs,
              LAMBDA run : \/ run.id \notin DOMAIN existing_run_states
                           \/ existing_run_states[run.id] = "running")

select_new_and_unfinished_runs(all_runs, existing_run_states) ==
    SelectSeq(all_runs,
              LAMBDA run : \/ run.id \notin DOMAIN existing_run_states
                           \/ existing_run_states[run.id] # "finished")

NewStats(n_wandb, n_stored) ==
    [num_wandb_runs |-> n_wandb,
     num_stored_runs |-> n_stored,
     num_new_runs |-> 0,
     num_updated_runs |-> 0,
     num_downloaded_histories |-> 0,
     num_downloaded_history_entries |-> 0,
     downloaded_rids |-> <<>>]

\* variant: the else branch is lost, every stored run counts as updated
count_run_no_else(st, run, states) ==
    [st EXCEPT
        !.num_new_runs = IF run.id \notin DOMAIN states THEN @ + 1 ELSE @,
        !.num_updated_runs = @ + 1,
        !.downloaded_rids = Append(@, run.id)]

\* download_runs, body of the loop after store_run: the counters
count_run(st, run, states) ==
    [st EXCEPT
        !.num_new_runs = IF run.id \notin DOMAIN states THEN @ + 1 ELSE @,
        !.num_updated_runs = IF run.id \notin DOMAIN states THEN @ ELSE @ + 1,
        !.downloaded_rids = Append(@, run.id)]

NoCall == [entity |-> "", project |-> "", runs_only |-> FALSE,
           force_refresh |-> FALSE, consecutive |-> FALSE]

NoAudit == [inserted |-> 0, overwritten |-> 0, stored |-> <<>>,
            hist_done |-> {}, runs_before |-> {}, history_before |-> <<>>,
            error |-> "", failed_at |-> 0]

NoOp == [op |-> "none"]

\* the output directory before any export
NoFiles == [name \in {} |-> <<>>]

\* the two concurrent passes
Passes == {"A", "B"}

Other(p) == IF p = "A" THEN "B" ELSE "A"

\* no concurrent pass has started
NoConc ==
    [p \in Passes |-> [pc |-> "off", run |-> [id |-> ""], loaded |-> {}, k |-> 0]]

----------------------------------------------------------------------------
(* Specification Spec: the remote changes between passes; one              *)
(* download_project call at a time runs through its store transactions.    *)

Init ==
    /\ remote = [t \in Targets |-> [id \in RunIds |-> "absent"]]
    /\ runs = {}
    /\ history = <<>>
    /\ pc = "idle"
    /\ call = NoCall
    /\ wandb_runs = <<>>
    /\ stored_states = <<>>
    /\ runs_to_download = <<>>
    /\ i = 0
    /\ stats = NewStats(0, 0)
    /\ audit = NoAudit
    /\ files = NoFiles
    /\ conc = NoConc
    /\ lastOp = NoOp

\* a run is created in a remote project
RemoteAddRun(t, id) ==
    /\ pc = "idle"
    /\ id \in ProjectRunIds(t)
    /\ remote[t][id] = "absent"
    /\ remote' = [remote EXCEPT ![t][id] = "running"]
    /\ UNCHANGED <<conc, files, runs, history, passVars, lastOp>>

\* a running remote run ends
RemoteEndRun(t, id, st) ==
    /\ pc = "idle"
    /\ remote[t][id] = "running"
    /\ st \in ModelStates \ {"running"}
    /\ remote' = [remote EXCEPT ![t][id] = st]
    /\ UNCHANGED <<conc, files, runs, history, passVars, lastOp>>

\* download_project up to the loop of download_runs
BeginPass(t, runs_only, force_refresh, consecutive) ==
    LET wr == get_all_runs(remote, t[1], t[2])
        ss == get_existing_run_states(
                  runs, [entity |-> Some(t[1]), project |-> Some(t[2])])
        rtd == IF force_refresh THEN wr
               ELSE select_new_and_unfinished_runs(wr, ss)
    IN /\ call' = [entity |-> t[1], project |-> t[2],
                   runs_only |-> runs_only, force_refresh |-> force_refresh,
                   consecutive |-> consecutive]
       /\ wandb_runs' = wr
       /\ stored_states' = ss
       /\ runs_to_download' = rtd
       /\ stats' = NewStats(Len(wr), Cardinality(DOMAIN ss))
       /\ i' = 0
       /\ IF Len(rtd) = 0
          THEN \* download_runs returns a bare DownloaderStats; the tuple
               \* unpacking in download_project raises TypeError
               /\ pc' = "raised"
               /\ audit' = [NoAudit EXCEPT !.runs_before = runs,
                                           !.history_before = history,
                                           !.error = "TypeError"]
          ELSE /\ pc' = "runs"
               /\ audit' = [NoAudit EXCEPT !.runs_before = runs,
                                           !.history_before = history]
       /\ UNCHANGED <<conc, files, remote, runs, history, lastOp>>

DownloadProject(t, runs_only, force_refresh) ==
    /\ pc = "idle"
    /\ BeginPass(t, runs_only, force_refresh, FALSE)

\* the caller calls download_project again right after a pass returned
DownloadProjectAgain(runs_only) ==
    /\ pc = "returned"
    /\ ~call.force_refresh
    /\ ~call.consecutive
    /\ BeginPass(<<call.entity, call.project>>, runs_only, FALSE, TRUE)

\* variant: each run's history is fetched and stored right after its
\* metadata, inside the loop
StoreRunStepWithHistory ==
    /\ pc = "runs"
    /\ LET run == runs_to_download[i + 1]
       IN /\ runs' = store_run(runs, run)
          /\ history' = IF call.runs_only THEN history
                        ELSE store_history(history, run.id, ScanHistory(run))
          /\ stats' = count_run(stats, run, stored_states)
          /\ audit' =
                [audit EXCEPT
                    !.inserted =
                        IF session_get(runs, run.id) = {} THEN @ + 1 ELSE @,
                    !.overwritten =
                        IF session_get(runs, run.id) = {} THEN @ ELSE @ + 1,
                    !.stored = Append(@, run.id),
                    !.hist_done = IF call.runs_only THEN @ ELSE @ \cup {run.id}]
    /\ i' = i + 1
    /\ pc' = IF i + 1 < Len(runs_to_download) THEN "runs"
             ELSE IF call.runs_only THEN "returned" ELSE "hist"
    /\ UNCHANGED <<conc, files, remote, call, wandb_runs, stored_states,
                   runs_to_download, lastOp>>

\* one iteration of the loop of download_runs; after the last one
\* download_runs returns and download_project goes on
StoreRunStep ==
    /\ pc = "runs"
    /\ LET run == runs_to_download[i + 1]
       IN /\ runs' = store_run(runs, run)
          /\ stats' = count_run(stats, run, stored_states)
          /\ audit' =
                [audit EXCEPT
                    !.inserted =
                        IF session_get(runs, run.id) = {} THEN @ + 1 ELSE @,
                    !.overwritten =
                        IF session_get(runs, run.id) = {} THEN @ ELSE @ + 1,
                    !.stored = Append(@, run.id)]
    /\ i' = i + 1
    /\ pc' = IF i + 1 < Len(runs_to_download) THEN "runs"
             ELSE IF call.runs_only THEN "returned" ELSE "hist"
    /\ UNCHANGED <<conc, files, remote, history, call, wandb_runs, stored_states,
                   runs_to_download, lastOp>>

\* variant: the error of store_run is swallowed and the loop goes on
StoreRunRaiseSwallowed ==
    /\ pc = "runs"
    /\ i' = i + 1
    /\ pc' = IF i + 1 < Len(runs_to_download) THEN "runs"
             ELSE IF call.runs_only THEN "returned" ELSE "hist"
    /\ audit' = [audit EXCEPT !.error = "store_run", !.failed_at = i + 1]
    /\ UNCHANGED <<conc, files, remote, runs, history, call, wandb_runs, stored_states,
                   runs_to_download, stats, lastOp>>

\* store_run of the next run raises (remote attribute load or storage
\* error): the session rolls back and the error leaves download_project
StoreRunRaise ==
    /\ pc = "runs"
    /\ pc' = "raised"
    /\ audit' = [audit EXCEPT !.error = "store_run", !.failed_at = i + 1]
    /\ UNCHANGED <<conc, files, remote, runs, history, call, wandb_runs, stored_states,
                   runs_to_download, i, stats, lastOp>>

\* download_histories, then download_project returns
DownloadHistories ==
    /\ pc = "hist"
    /\ LET histories == [n \in 1..Len(runs_to_download) |->
                            ScanHistory(runs_to_download[n])]
       IN /\ history' = store_histories(history, runs_to_download, histories)
          /\ stats' =
                [stats EXCEPT
                    !.num_downloaded_histories = @ + Len(histories),
                    !.num_downloaded_history_entries =
                        @ + SumSeq([n \in 1..Len(histories) |->
                                        Len(histories[n])])]
    /\ audit' = [audit EXCEPT
                    !.hist_done = {runs_to_download[n].id :
                                      n \in 1..Len(runs_to_download)}]
    /\ pc' = "returned"
    /\ UNCHANGED <<conc, files, remote, runs, call, wandb_runs, stored_states,
                   runs_to_download, i, lastOp>>

\* scan_history of the k-th downloaded run raises, or (k = 0) the
\* store_histories transaction raises and rolls back
HistoriesRaise(k) ==
    /\ pc = "hist"
    /\ k \in 0..Len(runs_to_download)
    /\ pc' = "raised"
    /\ audit' = [audit EXCEPT
                    !.error = IF k = 0 THEN "store_histories" ELSE "scan_history",
                    !.failed_at = k]
    /\ UNCHANGED <<conc, files, remote, runs, history, call, wandb_runs, stored_states,
                   runs_to_download, i, stats, lastOp>>

\* the caller is done with the Stats or the error of the pass
EndPass ==
    /\ pc \in {"returned", "raised"}
    /\ pc' = "idle"
    /\ call' = NoCall
    /\ wandb_runs' = <<>>
    /\ stored_states' = <<>>
    /\ runs_to_download' = <<>>
    /\ i' = 0
    /\ stats' = NewStats(0, 0)
    /\ audit' = NoAudit
    /\ UNCHANGED <<conc, files, remote, runs, history, lastOp>>

Next ==
    \/ \E t \in Targets, id \in RunIds : RemoteAddRun(t, id)
    \/ \E t \in Targets, id \in RunIds, st \in ModelStates :
            RemoteEndRun(t, id, st)
    \/ \E t \in Targets, ro \in BOOLEAN, fr \in BOOLEAN :
            DownloadProject(t, ro, fr)
    \/ \E ro \in BOOLEAN : DownloadProjectAgain(ro)
    \/ StoreRunStep
    \/ StoreRunRaise
    \/ DownloadHistories
    \/ \E k \in 0..Cardinality(RunIds) : HistoriesRaise(k)
    \/ EndPass

Spec == Init /\ [][Next]_vars

----------------------------------------------------------------------------
(* Specification SpecRuns: store_run, store_runs and the filtered reads    *)
(* called directly, with any run handle and any filter.                    *)

RunHandles ==
    {RunHandle(t, id, st) : t \in StoreTargets, id \in RunIds, st \in ModelStates}

\* the batches handed to store_runs
RunBatches ==
    SeqsUpTo({RunHandle(t, id, "finished") : t \in {T1, T3}, id \in RunIds}, 2)

FilterKeys == SUPPORTED_FILTER_FIELDS \cup {"run_name"}

\* the values a filter key takes, by position
FilterValues(k) ==
    CASE k = "project" -> <<Some("p1"), PyNone>>
      [] k = "entity" -> <<Some("e1"), PyNone>>
      [] k = "state" -> <<Some("finished")>>
      [] k = "run_ids" -> <<Some({"r1"}), Some({})>>
      [] k = "run_name" -> <<Some("alpha")>>

\* the kwargs handed to the reads: None or a dict
Filters ==
    {PyNone} \cup
    UNION {{[k \in S |-> FilterValues(k)[pick[k]]] :
                pick \in {q \in [S -> 1..2] :
                            \A k \in S : q[k] <= Len(FilterValues(k))}} :
            S \in SUBSET FilterKeys}

\* the include arguments handed to get_runs_df
Includes == {PyNone, All, Some(<<"config", "summary">>), Some(<<"bogus">>)}

\* a direct store call has returned to its caller
OpReturn ==
    /\ lastOp # NoOp
    /\ lastOp' = NoOp
    /\ UNCHANGED <<conc, files, remote, runs, history, passVars>>

StoreRun(run) ==
    /\ lastOp = NoOp
    /\ runs' = store_run(runs, run)
    /\ lastOp' = [op |-> "store_run", run |-> run,
                  old |-> session_get(runs, run.id)]
    /\ UNCHANGED <<conc, files, remote, history, passVars>>

\* ProjectStore.store_runs: every record is added; the commit fails on a
\* duplicate primary key and the session rolls back
StoreRuns(batch) ==
    LET ids == Ids(batch)
        clash == \/ \E n \in 1..Len(ids) : session_get(runs, ids[n]) # {}
                 \/ \E m, n \in 1..Len(ids) : m # n /\ ids[m] = ids[n]
    IN /\ lastOp = NoOp
       /\ runs' = IF clash THEN runs
                  ELSE runs \cup {from_wandb_run(batch[n]) : n \in 1..Len(batch)}
       /\ lastOp' = [op |-> "store_runs", batch |-> batch,
                     error |-> IF clash THEN "IntegrityError" ELSE ""]
       /\ UNCHANGED <<conc, files, remote, history, passVars>>

GetExistingRunStates(kwargs) ==
    /\ lastOp = NoOp
    /\ lastOp' =
          IF BuildRunQueryOk(kwargs)
          THEN [op |-> "get_existing_run_states", kwargs |-> kwargs,
                executed |-> TRUE, error |-> "",
                result |-> Some(get_existing_run_states(runs, kwargs))]
          ELSE [op |-> "get_existing_run_states", kwargs |-> kwargs,
                executed |-> FALSE, error |-> "AssertionError",
                result |-> PyNone]
    /\ UNCHANGED <<conc, files, remote, runs, history, passVars>>

\* ProjectStore.get_runs_df: the query is built, then executed, then each
\* row is serialised by to_dict
GetRunsDf(include, kwargs) ==
    /\ lastOp = NoOp
    /\ lastOp' =
          IF ~BuildRunQueryOk(kwargs)
          THEN [op |-> "get_runs_df", kwargs |-> kwargs, include |-> include,
                executed |-> FALSE, error |-> "AssertionError",
                result |-> PyNone]
          ELSE IF RunQueryRows(runs, kwargs) # {} /\ ~ToDictOk(include)
          THEN [op |-> "get_runs_df", kwargs |-> kwargs, include |-> include,
                executed |-> TRUE, error |-> "AssertionError",
                result |-> PyNone]
          ELSE [op |-> "get_runs_df", kwargs |-> kwargs, include |-> include,
                executed |-> TRUE, error |-> "",
                result |-> Some({to_dict(rec, include) :
                                    rec \in RunQueryRows(runs, kwargs)})]
    /\ UNCHANGED <<conc, files, remote, runs, history, passVars>>

NextRuns ==
    \/ \E run \in RunHandles : StoreRun(run)
    \/ \E batch \in RunBatches : StoreRuns(batch)
    \/ \E kwargs \in Filters : GetExistingRunStates(kwargs)
    \/ \E include \in Includes, kwargs \in Filters : GetRunsDf(include, kwargs)
    \/ OpReturn

SpecRuns == Init /\ [][NextRuns]_vars

----------------------------------------------------------------------------
(* Specification SpecHist: store_history and store_histories called        *)
(* directly, with any run id and any history.                              *)

\* the run lists handed to store_histories
RunLists ==
    SeqsUpTo({RunHandle(T1, id, "running") : id \in RunIds}, 2)

\* the history batches handed to store_histories
HistBatches == SeqsUpTo(SeqsUpTo(HistEntries, 1), 2)

StoreHistory(run_id, hist) ==
    /\ lastOp = NoOp
    /\ history' = store_history(history, run_id, hist)
    /\ lastOp' = [op |-> "store_history", run_id |-> run_id, history |-> hist,
                  prior_steps |-> {RowsOf(history, run_id)[n].step :
                                     n \in 1..Len(RowsOf(history, run_id))}]
    /\ UNCHANGED <<conc, files, remote, runs, passVars>>

\* ProjectStore.store_histories; the assertion on the two lengths fails
\* before the session is opened
StoreHistories(run_list, histories) ==
    /\ lastOp = NoOp
    /\ history' = IF Len(run_list) # Len(histories) THEN history
                  ELSE store_histories(history, run_list, histories)
    /\ lastOp' = [op |-> "store_histories", run_ids |-> Ids(run_list),
                  histories |-> histories,
                  error |-> IF Len(run_list) # Len(histories)
                            THEN "AssertionError" ELSE ""]
    /\ UNCHANGED <<conc, files, remote, runs, passVars>>

\* store_history raises inside its session: in the DELETE (deleted is
\* FALSE), or while converting / adding entry added+1, or in the commit
StoreHistoryRaise(run_id, hist, deleted, added) ==
    /\ lastOp = NoOp
    /\ added <= Len(hist)
    /\ ~deleted => added = 0
    /\ history' = session_exit(history,
                               SessionView(history, <<run_id>>,
                                           HistoryRows(hist, run_id),
                                           deleted, added),
                               FALSE)
    /\ lastOp' = [op |-> "store_history_raised", run_ids |-> <<run_id>>,
                  deleted |-> deleted, added |-> added]
    /\ UNCHANGED <<conc, files, remote, runs, passVars>>

\* store_histories raises inside its session, likewise
StoreHistoriesRaise(run_list, histories, deleted, added) ==
    /\ lastOp = NoOp
    /\ Len(run_list) = Len(histories)
    /\ added <= Len(ZipRows(Ids(run_list), histories))
    /\ ~deleted => added = 0
    /\ history' = session_exit(history,
                               SessionView(history, Ids(run_list),
                                           ZipRows(Ids(run_list), histories),
                                           deleted, added),
                               FALSE)
    /\ lastOp' = [op |-> "store_histories_raised", run_ids |-> Ids(run_list),
                  deleted |-> deleted, added |-> added]
    /\ UNCHANGED <<conc, files, remote, runs, passVars>>

NextHist ==
    \/ \E run_id \in RunIds, hist \in Hists : StoreHistory(run_id, hist)
    \/ \E run_list \in RunLists, histories \in HistBatches :
            StoreHistories(run_list, histories)
    \/ \E run_id \in RunIds, hist \in Hists, deleted \in BOOLEAN,
          added \in 0..MaxHistLen :
            StoreHistoryRaise(run_id, hist, deleted, added)
    \/ \E run_list \in RunLists, histories \in HistBatches,
          deleted \in BOOLEAN, added \in 0..MaxHistLen :
            StoreHistoriesRaise(run_list, histories, deleted, added)
    \/ OpReturn

SpecHist == Init /\ [][NextHist]_vars

----------------------------------------------------------------------------
(* Specification SpecExport: export_to_parquet on any store content.       *)

\* the runs handed to store_run before an export
ExportHandles == {RunHandle(T1, id, st) : id \in RunIds, st \in ModelStates}

\* the histories handed to store_history before an export
ExportHists == SeqsUpTo(HistEntries, 1)

\* ProjectStore.export_to_parquet with the default file names
ExportToParquet ==
    LET history_df == get_history_df(history, FALSE, PyNone)
        history_path == DEFAULT_HISTORY_FILENAME
        dir1 == IF history_df # <<>>
                THEN to_parquet(files, history_path, history_df) ELSE files
        loop == ExportComponents(runs, dir1,
                                 IF history_df # <<>> THEN {history_path} ELSE {},
                                 <<>>, 1)
        runs_df_full == get_runs_df(runs, All, PyNone)
        full_path == FullFile(DEFAULT_RUNS_FILENAME)
        write_full == loop.error = "" /\ runs_df_full.val # {}
    IN /\ lastOp = NoOp
       /\ files' = IF write_full
                   THEN to_parquet(loop.files, full_path, runs_df_full.val)
                   ELSE loop.files
       /\ lastOp' = [op |-> "export_to_parquet", error |-> loop.error,
                     written |-> IF write_full
                                 THEN loop.written \cup {full_path}
                                 ELSE loop.written,
                     queries |-> IF loop.error = ""
                                 THEN Append(loop.queries, All)
                                 ELSE loop.queries]
       /\ UNCHANGED <<conc, remote, runs, history, passVars>>

NextExport ==
    \/ \E run \in ExportHandles : StoreRun(run)
    \/ \E run_id \in RunIds, hist \in ExportHists : StoreHistory(run_id, hist)
    \/ ExportToParquet
    \/ OpReturn

SpecExport == Init /\ [][NextExport]_vars

----------------------------------------------------------------------------
(* Specification SpecConc: two download_project passes run concurrently    *)
(* against one store (engine default isolation: READ COMMITTED), each with *)
(* the run "r1" in its download set.  Their sessions interleave statement  *)
(* by statement.                                                           *)

\* the run both download sets hold
ConcRun == "r1"

\* the handles the two passes may hold for it (listed at different times,
\* or in different projects)
ConcHandles ==
    {RunHandle(t, ConcRun, st) : t \in StoreTargets, st \in ModelStates}

\* the flush of an updated RunRecord: UPDATE wandb_runs SET <the columns
\* whose value differs from the loaded one> WHERE run_id = :run_id
flush_update(current, loaded, updated) ==
    [col \in RunColumns |->
        IF updated[col] # loaded[col] THEN updated[col] ELSE current[col]]

\* variant: the DELETE of the transaction is lost
RemoveNone(table, run_id, k) == table

\* the commit of a DELETE that had found the k oldest rows of run_id
RECURSIVE RemoveFirst(_, _, _)
RemoveFirst(table, run_id, k) ==
    IF k = 0 \/ table = <<>> THEN table
    ELSE IF Head(table).run_id = run_id
         THEN RemoveFirst(Tail(table), run_id, k - 1)
         ELSE <<Head(table)>> \o RemoveFirst(Tail(table), run_id, k)

\* the store is filled before the two passes start
SeedRun(run) ==
    /\ conc = NoConc
    /\ StoreRun(run)

SeedHistory(hist) ==
    /\ conc = NoConc
    /\ StoreHistory(ConcRun, hist)

\* both passes have listed their project and selected the run
ConcStart(runA, runB) ==
    /\ conc = NoConc
    /\ lastOp = NoOp
    /\ conc' = [p \in Passes |->
                  [pc |-> "get", run |-> IF p = "A" THEN runA ELSE runB,
                   loaded |-> {}, k |-> 0]]
    /\ UNCHANGED <<files, remote, runs, history, passVars, lastOp>>

\* store_run: existing_run = session.get(RunRecord, run.id)
TxGet(p) ==
    /\ conc[p].pc = "get"
    /\ conc' = [conc EXCEPT ![p].pc = "write",
                            ![p].loaded = session_get(runs, conc[p].run.id)]
    /\ UNCHANGED <<files, remote, runs, history, passVars, lastOp>>

\* store_run: session.commit() flushes the INSERT or the UPDATE and commits;
\* the INSERT of a key that was committed meanwhile raises IntegrityError
TxWriteRun(p) ==
    LET run == conc[p].run
        loaded == conc[p].loaded
        current == session_get(runs, run.id)
    IN /\ conc[p].pc = "write"
       /\ IF loaded = {}
          THEN IF current # {}
               THEN /\ conc' = [conc EXCEPT ![p].pc = "raised"]
                    /\ runs' = runs
               ELSE /\ conc' = [conc EXCEPT ![p].pc = "delete"]
                    /\ runs' = runs \cup {from_wandb_run(run)}
          ELSE /\ conc' = [conc EXCEPT ![p].pc = "delete"]
               /\ runs' = (runs \ current) \cup
                          {flush_update(cur, old, update_from_wandb_run(old, run)) :
                              cur \in current, old \in loaded}
       /\ UNCHANGED <<files, remote, history, passVars, lastOp>>

\* store_histories: the DELETE statement.  It finds the committed rows of
\* the run; if the other session has deleted them and not yet committed,
\* the statement waits for that commit
TxDelete(p) ==
    /\ conc[p].pc = "delete"
    /\ conc' =
          IF conc[Other(p)].pc = "insert" /\ conc[Other(p)].k > 0
          THEN [conc EXCEPT ![p].pc = "blocked"]
          ELSE [conc EXCEPT ![p].pc = "insert",
                            ![p].k = Len(RowsOf(history, conc[p].run.id))]
    /\ UNCHANGED <<files, remote, runs, history, passVars, lastOp>>

\* the other session has committed: the rows the waiting DELETE had found
\* are gone, and the rows the other session inserted are not in its snapshot
TxUnblock(p) ==
    /\ conc[p].pc = "blocked"
    /\ conc[Other(p)].pc = "done"
    /\ conc' = [conc EXCEPT ![p].pc = "insert", ![p].k = 0]
    /\ UNCHANGED <<files, remote, runs, history, passVars, lastOp>>

\* store_histories: session.commit() flushes the INSERTs and commits
TxCommitHist(p) ==
    LET run == conc[p].run
    IN /\ conc[p].pc = "insert"
       /\ history' = RemoveFirst(history, run.id, conc[p].k)
                        \o HistoryRows(ScanHistory(run), run.id)
       /\ conc' = [conc EXCEPT ![p].pc = "done"]
       /\ UNCHANGED <<files, remote, runs, passVars, lastOp>>

NextConc ==
    \/ \E run \in ConcHandles : SeedRun(run)
    \/ \E hist \in ExportHists : SeedHistory(hist)
    \/ OpReturn
    \/ \E runA, runB \in ConcHandles : ConcStart(runA, runB)
    \/ \E p \in Passes : TxGet(p)
    \/ \E p \in Passes : TxWriteRun(p)
    \/ \E p \in Passes : TxDelete(p)
    \/ \E p \in Passes : TxUnblock(p)
    \/ \E p \in Passes : TxCommitHist(p)

SpecConc == Init /\ [][NextConc]_vars

----------------------------------------------------------------------------
(* Properties of a download_project pass (specification Spec)              *)

\* the states stored before the pass for the run r of the pass's project
StatesBefore(r) ==
    {rec.state : rec \in {x \in audit.runs_before :
                            /\ x.run_id = r.id
                            /\ x.entity = call.entity
                            /\ x.project = call.project}}

MustDownload(r) ==
    \/ call.force_refresh
    \/ StatesBefore(r) = {}
    \/ "finished" \notin StatesBefore(r)

\* C1: a remote run of the pass's listing is in the download set iff
\* force_refresh, or the store held no run of that id for the project, or
\* its stored state was not "finished"; a pass that returns has stored
\* exactly those runs.
C1_DiffSelection ==
    pc \in {"runs", "hist", "returned"} =>
        /\ \A n \in 1..Len(wandb_runs) :
              (wandb_runs[n] \in Range(runs_to_download))
                  <=> MustDownload(wandb_runs[n])
        /\ pc = "returned" =>
              Range(audit.stored) =
                  {wandb_runs[n].id : n \in {m \in 1..Len(wandb_runs) :
                                                MustDownload(wandb_runs[m])}}

\* a pass without force_refresh returned having skipped a run stored as
\* finished and stored again a run stored as crashed
C1_Witness ==
    /\ pc = "returned"
    /\ ~call.force_refresh
    /\ \E n \in 1..Len(wandb_runs) :
          /\ StatesBefore(wandb_runs[n]) = {"finished"}
          /\ wandb_runs[n].id \notin Range(audit.stored)
    /\ \E n \in 1..Len(wandb_runs) :
          /\ StatesBefore(wandb_runs[n]) = {"crashed"}
          /\ wandb_runs[n].id \in Range(audit.stored)

\* C2: a pass that returns reports as num_new_runs the number of records it
\* inserted and as num_updated_runs the number of records it overwrote.
C2_StatsCountWrites ==
    pc = "returned" =>
        /\ stats.num_new_runs = audit.inserted
        /\ stats.num_updated_runs = audit.overwritten

\* C3: the second of two consecutive passes without force_refresh and
\* without remote change returns Stats with no new and no updated run.
C3_SecondPassIdle ==
    (/\ call.consecutive
     /\ \/ pc = "returned"
        \/ pc = "raised" /\ audit.error = "TypeError") =>
        /\ pc = "returned"
        /\ stats.num_new_runs = 0
        /\ stats.num_updated_runs = 0

C7_StatsReconcile ==
    pc = "returned" =>
        /\ stats.num_new_runs + stats.num_updated_runs <= Len(runs_to_download)
        /\ Len(runs_to_download) <= stats.num_wandb_runs
        /\ stats.num_wandb_runs = Len(get_all_runs(remote, call.entity, call.project))
        /\ stats.downloaded_rids = Ids(runs_to_download)
        /\ Len(stats.downloaded_rids) =
              stats.num_new_runs + stats.num_updated_runs

\* a pass returned that skipped one remote run and overwrote another
C7_Witness ==
    /\ pc = "returned"
    /\ Len(runs_to_download) < stats.num_wandb_runs
    /\ stats.num_updated_runs >= 1

----------------------------------------------------------------------------
(* Properties of the store operations (specifications SpecRuns, SpecHist)  *)

\* the entries a store_histories call gives for one run id, in call order
RECURSIVE EntriesFor(_, _, _)
EntriesFor(run_ids, histories, id) ==
    IF run_ids = <<>> \/ histories = <<>> THEN <<>>
    ELSE (IF Head(run_ids) = id THEN Head(histories) ELSE <<>>)
         \o EntriesFor(Tail(run_ids), Tail(histories), id)

\* table rows are exactly one row per entry, in entry order
OneRowPerEntry(rows, entries, id) ==
    /\ Len(rows) = Len(entries)
    /\ \A n \in 1..Len(rows) :
          /\ rows[n].run_id = id
          /\ rows[n].step = Get(entries[n], K_step, None)
          /\ rows[n].runtime = Get(entries[n], K_runtime, None)
          /\ rows[n].wandb_metadata = Get(entries[n], K_wandb, EmptyDict)
          /\ \A k \in DOMAIN rows[n].metrics :
                k \in DOMAIN entries[n] /\ rows[n].metrics[k] = entries[n][k]

\* C4: store_history(R, B), whatever rows R had before, leaves for R one
\* row per entry of B and nothing else; store_histories does the same for
\* every run id it is given; the rows of all other runs stay as they were.
C4_HistoryReplace ==
    [][/\ lastOp'.op = "store_history" =>
            /\ OneRowPerEntry(RowsOf(history', lastOp'.run_id),
                              lastOp'.history, lastOp'.run_id)
            /\ \A id \in RunIds \ {lastOp'.run_id} :
                  RowsOf(history', id) = RowsOf(history, id)
       /\ (lastOp'.op = "store_histories" /\ lastOp'.error = "") =>
            \A id \in RunIds :
               IF id \in Range(lastOp'.run_ids)
               THEN OneRowPerEntry(
                        RowsOf(history', id),
                        EntriesFor(lastOp'.run_ids, lastOp'.histories, id), id)
               ELSE RowsOf(history', id) = RowsOf(history, id)
      ]_vars

\* store_history replaced rows of a run by entries that share a step with
\* them, while the other run has rows
C4_Witness ==
    /\ lastOp.op = "store_history"
    /\ lastOp.history # <<>>
    /\ \E n \in 1..Len(lastOp.history) :
          Get(lastOp.history[n], K_step, None) \in lastOp.prior_steps
    /\ Len(history) > Len(lastOp.history)

\* the non-key columns of a record hold the data of the run handle
HoldsDataOf(rec, run) ==
    /\ rec.run_name = run.name
    /\ rec.state = run.state
    /\ rec.project = run.project
    /\ rec.entity = run.entity
    /\ rec.created_at = run.created_at
    /\ rec.config = run.config
    /\ rec.summary = run.summary
    /\ rec.metadata = (IF run.metadata = None THEN EmptyDict ELSE run.metadata)
    /\ rec.system_metrics =
          (IF run.system_metrics = None THEN EmptyDict ELSE run.system_metrics)
    /\ rec.system_attrs = run.attrs
    /\ rec.sweep_info.sweep_id = run.sweep_id
    /\ rec.sweep_info.sweep_url = run.sweep_url

UnsupportedFilter(kwargs) ==
    /\ kwargs # PyNone
    /\ \E k \in DOMAIN kwargs :
          \/ k \notin {"project", "entity", "state", "run_ids"}
          \/ kwargs[k] = PyNone

\* C9: get_existing_run_states and get_runs_df given a filter with a key
\* outside {project, entity, state, run_ids} or with a None value raise an
\* error without executing the query; the reads leave the store unchanged.
C9_FilterContract ==
    [][lastOp'.op \in {"get_existing_run_states", "get_runs_df"} =>
            /\ runs' = runs
            /\ history' = history
            /\ UnsupportedFilter(lastOp'.kwargs) =>
                  /\ lastOp'.error = "AssertionError"
                  /\ ~lastOp'.executed
                  /\ lastOp'.result = PyNone
      ]_vars

\* get_runs_df rejected a filter whose only flaw is a None value, on a
\* store that holds runs
C9_Witness ==
    /\ lastOp.op = "get_runs_df"
    /\ lastOp.kwargs # PyNone
    /\ DOMAIN lastOp.kwargs = {"project", "run_ids"}
    /\ lastOp.kwargs["project"] = PyNone
    /\ lastOp.error = "AssertionError"
    /\ ~lastOp.executed
    /\ runs # {}

ReservedKeys == {K_step, K_timestamp, K_runtime, K_wandb}

\* C10: of a stored history entry exactly the reserved keys go to the fixed
\* columns; every other key, whatever its name, is in the metrics mapping
\* with its value.
C10_AllowList ==
    lastOp.op = "store_history" =>
        LET rows == RowsOf(history, lastOp.run_id)
        IN \A n \in 1..Len(lastOp.history) :
              /\ DOMAIN rows[n].metrics = DOMAIN lastOp.history[n] \ ReservedKeys
              /\ \A k \in DOMAIN rows[n].metrics :
                    rows[n].metrics[k] = lastOp.history[n][k]

----------------------------------------------------------------------------
(* Export                                                                  *)

\* the full Run snapshot of a table: every column of every record
FullSnapshot(table) == {[col \in RunColumns |-> rec[col]] : rec \in table}

\* C11 (as stated): export_to_parquet on a store holding at least one run
\* completes without error, has run the six single-component projection
\* queries and the full one, and has written the full Run snapshot with
\* every component of every run.
C11_ExportCompletes ==
    (lastOp.op = "export_to_parquet" /\ runs # {}) =>
        /\ lastOp.error = ""
        /\ Len(lastOp.queries) = Len(RUN_DATA_COMPONENTS) + 1
        /\ FullFile(DEFAULT_RUNS_FILENAME) \in lastOp.written
        /\ files[FullFile(DEFAULT_RUNS_FILENAME)] = FullSnapshot(runs)

\* is the content of a component empty in a record
EmptyContent(rec, component) ==
    IF component = "sweep_info"
    THEN rec.sweep_info.sweep_id = None /\ rec.sweep_info.sweep_url = None
    ELSE rec[component] \in {None, EmptyDict}

\* C12 (as stated): an export writes a component file only when that
\* component is non-empty for at least one stored run, writes the history
\* snapshot exactly when a history row exists and writes the full Run
\* snapshot exactly when a run exists.
C12_SkipRule ==
    lastOp.op = "export_to_parquet" =>
        /\ \A c \in Range(RUN_DATA_COMPONENTS) :
                ComponentFile(DEFAULT_RUNS_FILENAME, c) \in lastOp.written =>
                    \E rec \in runs : ~EmptyContent(rec, c)
        /\ DEFAULT_HISTORY_FILENAME \in lastOp.written <=> history # <<>>
        /\ FullFile(DEFAULT_RUNS_FILENAME) \in lastOp.written <=> runs # {}

----------------------------------------------------------------------------
(* Round trip of a run through the store                                   *)

\* the rows read back for one run id with every component included
ReadBack(run_id) ==
    get_runs_df(runs, All, [run_ids |-> Some({run_id})]).val

\* the row that holds the remote run's fields, with `absent` standing for a
\* null metadata / system_metrics
RowOf(run, absent) ==
    [run_id |-> run.id, run_name |-> run.name, state |-> run.state,
     project |-> run.project, entity |-> run.entity,
     created_at |-> run.created_at, config |-> run.config,
     summary |-> run.summary,
     metadata |-> IF run.metadata = None THEN absent ELSE run.metadata,
     system_metrics |->
        IF run.system_metrics = None THEN absent ELSE run.system_metrics,
     system_attrs |-> run.attrs,
     sweep_info |-> [sweep_id |-> run.sweep_id, sweep_url |-> run.sweep_url]]

\* C13 (as stated): after store_run(run), reading the run back with all
\* components yields every field exactly as the remote run has it, a null
\* metadata or system_metrics included.
C13_RoundTripExact ==
    lastOp.op = "store_run" => ReadBack(lastOp.run.id) = {RowOf(lastOp.run, None)}

\* C13 (amended): after store_run(run), reading the run back with all
\* components yields exactly one row whose fields equal the remote run's,
\* except that a null metadata or system_metrics reads back as the empty
\* mapping.
C13_RoundTrip ==
    lastOp.op = "store_run" =>
        ReadBack(lastOp.run.id) = {RowOf(lastOp.run, EmptyDict)}

\* a run whose metadata and system_metrics are null was stored over another
\* record and reads back with empty mappings
C13_Witness ==
    /\ lastOp.op = "store_run"
    /\ lastOp.old # {}
    /\ lastOp.run.metadata = None
    /\ lastOp.run.system_metrics = None
    /\ \E row \in ReadBack(lastOp.run.id) :
            row.metadata = EmptyDict /\ row.system_metrics = EmptyDict

----------------------------------------------------------------------------
(* Include contract of the Run projection                                  *)

\* an include list naming something that is not a component
MalformedInclude(include) ==
    /\ include # PyNone
    /\ include # All
    /\ \E n \in 1..Len(include.val) :
            include.val[n] \notin
                {"config", "summary", "metadata", "system_metrics",
                 "system_attrs", "sweep_info"}

\* C14 (as stated): get_runs_df with a malformed include is rejected before
\* any query executes, whatever the store holds, the empty store included.
C14_IncludeRejectedEagerly ==
    (lastOp.op = "get_runs_df" /\ MalformedInclude(lastOp.include)) =>
        /\ lastOp.error = "AssertionError"
        /\ ~lastOp.executed

----------------------------------------------------------------------------
(* Atomicity of history storage                                            *)

\* the rows of the runs a call was not given, in table order
RowsOfOthers(table, run_ids) ==
    SelectSeq(table, LAMBDA row : row.run_id \notin Range(run_ids))

\* C15: a store_history / store_histories call that fails (in its length
\* assertion, in the delete, while converting or adding an entry, or in the
\* commit) leaves the history table exactly as it was; a call that succeeds
\* has removed every prior row of the given run ids and added one row per
\* new entry, together.
C15_HistoryAtomic ==
    [][/\ (\/ lastOp'.op \in {"store_history_raised", "store_histories_raised"}
           \/ (lastOp'.op = "store_histories" /\ lastOp'.error # ""))
            => history' = history
       /\ (\/ lastOp'.op = "store_history"
           \/ (lastOp'.op = "store_histories" /\ lastOp'.error = ""))
            => LET given == IF lastOp'.op = "store_history"
                            THEN <<lastOp'.run_id>> ELSE lastOp'.run_ids
                   entries == IF lastOp'.op = "store_history"
                              THEN Len(lastOp'.history)
                              ELSE SumSeq([n \in 1..Len(lastOp'.histories) |->
                                              Len(lastOp'.histories[n])])
                   kept == RowsOfOthers(history, given)
               IN /\ Len(history') = Len(kept) + entries
                  /\ SubSeq(history', 1, Len(kept)) = kept
                  /\ \A n \in (Len(kept) + 1)..Len(history') :
                        history'[n].run_id \in Range(given)]_vars

\* a call failed after its delete and after adding a row, and the prior
\* rows of its run are still in the table
C15_Witness ==
    /\ lastOp.op \in {"store_history_raised", "store_histories_raised"}
    /\ lastOp.deleted
    /\ lastOp.added >= 1
    /\ \E n \in 1..Len(lastOp.run_ids) :
            RowsOf(history, lastOp.run_ids[n]) # <<>>

----------------------------------------------------------------------------
(* Stored-state query                                                      *)

\* does a stored record satisfy every key of an accepted filter
Satisfies(rec, kwargs) ==
    \A k \in DOMAIN kwargs :
        CASE k = "project" -> rec.project = kwargs[k].val
          [] k = "entity" -> rec.entity = kwargs[k].val
          [] k = "state" -> rec.state = kwargs[k].val
          [] k = "run_ids" -> rec.run_id \in kwargs[k].val

\* C16: get_existing_run_states never changes the store, and with an
\* accepted filter it returns exactly the mapping run id -> stored state of
\* the stored runs that satisfy every filter key given; of all stored runs
\* when no filter is given.
C16_ExistingStates ==
    [][lastOp'.op = "get_existing_run_states" =>
        /\ runs' = runs
        /\ history' = history
        /\ lastOp'.error = "" =>
            LET kwargs == lastOp'.kwargs
                matching == IF kwargs = PyNone THEN runs
                            ELSE {rec \in runs : Satisfies(rec, kwargs)}
                result == lastOp'.result.val
            IN /\ DOMAIN result = {rec.run_id : rec \in matching}
               /\ \A rec \in matching : result[rec.run_id] = rec.state]_vars

\* a filter on all four keys returned one of two stored runs
C16_Witness ==
    /\ lastOp.op = "get_existing_run_states"
    /\ lastOp.error = ""
    /\ lastOp.kwargs # PyNone
    /\ DOMAIN lastOp.kwargs = SUPPORTED_FILTER_FIELDS
    /\ DOMAIN lastOp.result.val = {"r1"}
    /\ Cardinality(runs) = 2
    /\ \E rec \in runs : rec.run_id = "r1" /\ rec.entity = "e1"

----------------------------------------------------------------------------
(* Convergence of the stored history                                       *)

\* the stored history rows of a remote run are the rows of its history
HistoryInSync(run) ==
    RowsOf(history, run.id) = HistoryRows(ScanHistory(run), run.id)

\* C17 (as stated): when a download_project call with runs_only=False and
\* force_refresh=False has returned, the stored history of every run of the
\* (unchanged) remote project equals that run's remote history, whatever
\* passes came before.
C17_HistoryConverges ==
    (pc = "returned" /\ ~call.runs_only /\ ~call.force_refresh) =>
        \A n \in 1..Len(wandb_runs) : HistoryInSync(wandb_runs[n])

----------------------------------------------------------------------------
(* Frame of a pass                                                         *)

\* the stored record is that of a run of the pass's download set
InDownloadSet(rec) ==
    \E n \in 1..Len(runs_to_download) :
        /\ runs_to_download[n].id = rec.run_id
        /\ runs_to_download[n].entity = rec.entity
        /\ runs_to_download[n].project = rec.project

\* C18 (as stated): at every point of a pass, the Run record and the history
\* rows of every run that was stored before the pass and is not in its
\* download set (finished runs of the same project without force_refresh,
\* every run of another entity/project pair) are as they were before the
\* pass; with runs_only=True the whole history table is as it was.
C18_PassFrame ==
    pc \in {"runs", "hist", "returned", "raised"} =>
        /\ \A rec \in audit.runs_before :
                ~InDownloadSet(rec) =>
                    /\ rec \in runs
                    /\ RowsOf(history, rec.run_id) =
                            RowsOf(audit.history_before, rec.run_id)
        /\ call.runs_only => history = audit.history_before

----------------------------------------------------------------------------
(* Two concurrent passes                                                   *)

\* both passes have run to their end
ConcFinal == \A p \in Passes : conc[p].pc \in {"done", "raised"}

\* the record a pass writes for its run, and the history rows it writes
Written(p) == from_wandb_run(conc[p].run)

WrittenRows(p) == HistoryRows(ScanHistory(conc[p].run), conc[p].run.id)

\* C19 (as stated): when both passes are through, the Run record of R is in
\* full the record written by one of the two passes, and the history rows
\* of R are exactly the rows written by one of the two passes.
C19_LastWriterWins ==
    ConcFinal =>
        /\ session_get(runs, ConcRun) \in {{Written("A")}, {Written("B")}}
        /\ RowsOf(history, ConcRun) \in {WrittenRows("A"), WrittenRows("B")}

\* C19 (amended): when both passes are through, R has one Run record; each
\* of its columns holds the value one of the two passes wrote for that
\* column (columns of both may be mixed), and if one pass failed on its
\* INSERT the record is in full the other's.  The history rows of R hold no
\* row from before the passes and are the rows of one pass that stored its
\* histories, or the rows of both one after the other.
C19_ConcurrentOutcome ==
    ConcFinal =>
        LET done == {p \in Passes : conc[p].pc = "done"}
            rows == RowsOf(history, ConcRun)
        IN /\ done # {}
           /\ \E rec \in runs :
                /\ session_get(runs, ConcRun) = {rec}
                /\ \A col \in RunColumns :
                        \E p \in Passes : rec[col] = Written(p)[col]
                /\ \A p \in Passes :
                        conc[p].pc = "raised" => rec = Written(Other(p))
           /\ \/ \E p \in done : rows = WrittenRows(p)
              \/ /\ done = Passes
                 /\ \E p \in Passes :
                        rows = WrittenRows(p) \o WrittenRows(Other(p))

\* both passes are through, the record of R mixes columns of both and the
\* history of R holds the rows of both
C19_Witness ==
    /\ ConcFinal
    /\ \A p \in Passes : conc[p].pc = "done"
    /\ \A p \in Passes : session_get(runs, ConcRun) # {Written(p)}
    /\ WrittenRows("A") # WrittenRows("B")
    /\ RowsOf(history, ConcRun) = WrittenRows("A") \o WrittenRows("B")

====
